---- MODULE Spec2Model ----
(***************************************************************************)
(* A model of the infinite mixture model sampler IMM of                    *)
(* nipy/neurospin/clustering/imm.py.                                       *)
(*                                                                         *)
(* The object state is the cluster count k, the weights, and the prior     *)
(* hyper-parameter arrays that update() re-dimensions.  Points are the row *)
(* indices 1..n of the data x (row p here is row p-1 of the numpy array);  *)
(* a label vector is a sequence of naturals.  Real numbers are exact       *)
(* rationals <<numerator, denominator>> in lowest terms.  The categorical  *)
(* draw of the BGMM base class is a nondeterministic choice of a column    *)
(* per row.  The source is Python 2: n_samples/k on two ints is the floor. *)
(***************************************************************************)
EXTENDS Integers, Sequences, FiniteSets

\* ---------------------------------------------------------------- bounds
MaxN == 3        \* points of a data set given to sample
MaxIter == 2     \* niter of one sample call
MaxLen == 3      \* length of a vector given to a directly called method
MaxLabel == 3    \* largest label in a directly given label vector
MaxK == 3        \* largest self.k a direct call starts from
MaxVal == 1      \* data values of set_priors are 0..MaxVal

\* ------------------------------------------------------- program constants
AlphaNum == 1    \* alpha = .5
AlphaDen == 2
SmallNum == 1    \* small = 0.01
SmallDen == 100
Dim == 1         \* dim = 1

VARIABLES
    k,                \* self.k
    weights,          \* self.weights
    prior_means,      \* self.prior_means, one entry per row
    prior_weights,    \* self.prior_weights
    prior_scale,      \* self.prior_scale
    prior_dof,        \* self.prior_dof
    prior_shrinkage,  \* self.prior_shrinkage
    dets,             \* self._dets
    inv_prior_scale,  \* self._inv_prior_scale
    means_rows,       \* self.means.shape[0] (= self.precisions.shape[0])
    priors_set,       \* set_priors has run (the prior fields are not None)
    canon,            \* history: the values set_priors computed
    pc,               \* position of the running call
    n,                \* x.shape[0] of the running sample call
    z,                \* sample's assignment vector z
    niter, it,        \* sample's niter and loop counter i
    folds,            \* sample's k (the fold count; 0 = plain update)
    inited,           \* the running sample call was started with init=True
    idx,              \* cross_validated_update: the permutation idx
    fi,               \* cross_validated_update: the fold counter i
    test,             \* cross_validated_update: the mask test, as a set of points
    written,          \* history: times slike[p] and z[p] were written in this call
    updX,             \* history: the points passed as x to the last update
    updZ,             \* history: the labels passed as z to the last update
    updated,          \* history: update was the last method to touch the priors/k
    fresh,            \* history: points given a fresh label by the last draw
    op, arg, ret      \* a direct method call: its name, argument and result

vars == <<k, weights, prior_means, prior_weights, prior_scale, prior_dof,
          prior_shrinkage, dets, inv_prior_scale, means_rows, priors_set, canon,
          pc, n, z, niter, it, folds, inited, idx, fi, test, written,
          updX, updZ, updated, fresh, op, arg, ret>>

objVars == <<k, weights, prior_means, prior_weights, prior_scale, prior_dof,
             prior_shrinkage, dets, inv_prior_scale, means_rows, priors_set, canon>>
priorVars == <<prior_means, prior_weights, prior_scale, prior_dof,
               prior_shrinkage, dets, inv_prior_scale, priors_set, canon>>
sampleVars == <<n, z, niter, it, folds, inited>>
cvVars == <<idx, fi, test, written>>
histVars == <<updX, updZ, updated, fresh>>
callVars == <<op, arg, ret>>

\* ------------------------------------------------------------- arithmetic
Range(s) == {s[i] : i \in DOMAIN s}
Max(S) == CHOOSE m \in S : \A v \in S : v <= m
Min(S) == CHOOSE m \in S : \A v \in S : m <= v
Abs(a) == IF a < 0 THEN -a ELSE a

RECURSIVE Gcd(_, _)
Gcd(a, b) == IF b = 0 THEN a ELSE Gcd(b, a % b)

\* a rational in lowest terms with a positive denominator
Rat(a, b) ==
    LET g == Gcd(Abs(a), Abs(b))
        s == IF b < 0 THEN -1 ELSE 1
    IN  <<(s * a) \div g, (s * b) \div g>>
RatAdd(a, b) == Rat(a[1] * b[2] + b[1] * a[2], a[2] * b[2])
RatSub(a, b) == Rat(a[1] * b[2] - b[1] * a[2], a[2] * b[2])
RatMul(a, b) == Rat(a[1] * b[1], a[2] * b[2])
RatDiv(a, b) == Rat(a[1] * b[2], a[2] * b[1])
RECURSIVE RatSum(_)
RatSum(s) == IF s = <<>> THEN <<0, 1>> ELSE RatAdd(s[1], RatSum(Tail(s)))

Ones(m, v) == [i \in 1..m |-> v]

\* ------------------------------------------------------------ set_priors
\* The data sets set_priors is given: dim = 1, values 0..MaxVal, at least two
\* points and a non-zero variance (vx has no zero on its diagonal).
DataSets ==
    {xs \in UNION {[1..m -> 0..MaxVal] : m \in 2..MaxLen} :
        \E i, j \in DOMAIN xs : xs[i] # xs[j]}

\* x.mean(0)
Mean(xs) == RatDiv(RatSum([i \in DOMAIN xs |-> <<xs[i], 1>>]), <<Len(xs), 1>>)

\* np.dot(dx.T, dx) / x.shape[0] with dx = x - mx
Variance(xs) ==
    LET mx == Mean(xs)
        dx == [i \in DOMAIN xs |-> RatSub(<<xs[i], 1>>, mx)]
    IN  RatDiv(RatSum([i \in DOMAIN xs |-> RatMul(dx[i], dx[i])]), <<Len(xs), 1>>)

\* the values set_priors assigns, each a single row
PriorsOf(xs) ==
    LET px == RatDiv(<<1, 1>>, Variance(xs))
    IN  [means     |-> Mean(xs),
         weights   |-> Rat(AlphaNum, AlphaDen),
         scale     |-> px,
         dof       |-> Dim + 2,
         shrinkage |-> Rat(SmallNum, SmallDen),
         dets      |-> px,                       \* det of the 1 x 1 matrix px[0]
         inv_scale |-> RatDiv(<<1, 1>>, px)]     \* inv of the 1 x 1 matrix px[0]

NoCanon == [means |-> <<0, 1>>, weights |-> <<0, 1>>, scale |-> <<0, 1>>, dof |-> 0,
            shrinkage |-> <<0, 1>>, dets |-> <<0, 1>>, inv_scale |-> <<0, 1>>]

\* ---------------------------------------------------------------- reduce
RECURSIVE SortedSeq(_)
SortedSeq(S) == IF S = {} THEN <<>> ELSE <<Min(S)>> \o SortedSeq(S \ {Min(S)})

\* the distinct labels in order of first appearance
FirstSeen(zz) ==
    LET first == {p \in DOMAIN zz : \A q \in 1..(p - 1) : zz[q] # zz[p]}
        pos == SortedSeq(first)
    IN  [i \in DOMAIN pos |-> zz[pos[i]]]

\* np.unique(z): the sorted distinct labels
Unique(zz) == SortedSeq(Range(zz))

\* for i,k in enumerate(u): z[z==k] = i   (in place, one label after the other;
\* position i of the sequence u is enumerate's i - 1)
RECURSIVE ReduceLoop(_, _, _)
ReduceLoop(zz, u, i) ==
    IF i > Len(u) THEN zz
    ELSE ReduceLoop([p \in DOMAIN zz |-> IF zz[p] = u[i] THEN i - 1 ELSE zz[p]], u, i + 1)

\* the vector reduce leaves in place of z
ReduceZ(zz) == ReduceLoop(zz, Unique(zz), 1)

ReduceKNoPlus(zr) == Max(Range(zr))

\* self.k = z.max()+1, of the vector already relabelled
ReduceK(zr) == Max(Range(zr)) + 1

\* z.max() of an empty array raises ValueError
ReduceRaises(zz) == Len(zz) = 0

\* ------------------------------------------------------ sample_indicator
\* BGMM.sample_indicator(like): one column 0..k drawn per row of like, which has
\* k+1 columns (a single column when k = 0)
BaseDraws(rows, kk) == [rows -> 0..kk]

SampleIndicatorBase(draw, kk) == draw

\* z[z==self.k] = self.k + np.arange(np.sum(z==self.k))
SampleIndicator(draw, kk) ==
    [p \in DOMAIN draw |->
        IF draw[p] = kk
        THEN kk + Cardinality({q \in DOMAIN draw : q < p /\ draw[q] = kk})
        ELSE draw[p]]

\* -------------------------------------------------------- update_weights
\* BGMM.pop(z): the number of points of each of the self.k clusters
Pop(zz, kk) == [i \in 1..kk |-> Cardinality({p \in DOMAIN zz : zz[p] = i - 1})]

UpdateWeightsNoSlot(zz, kk, pw) ==
    LET pop == Pop(zz, kk)
        w == [i \in DOMAIN pop |-> RatAdd(<<pop[i], 1>>, pw[1])]
    IN  [i \in DOMAIN w |-> RatDiv(w[i], RatSum(w))]

\* pop = hstack((pop(z), 0)); weights = pop + prior_weights; weights /= sum
UpdateWeights(zz, kk, pw) ==
    LET pop == Pop(zz, kk) \o <<0>>
        w == [i \in DOMAIN pop |-> RatAdd(<<pop[i], 1>>, pw[1])]
    IN  [i \in DOMAIN w |-> RatDiv(w[i], RatSum(w))]

\* ---------------------------------------------------------------- update
\* np.repeat(a[:1], k, 0): k copies of the first row, none when a has no row
RepeatFirst(a, kk) == IF Len(a) = 0 THEN <<>> ELSE Ones(kk, a[1])

\* a[0]*np.ones(k) raises IndexError when a has no entry
FirstRaises(a) == Len(a) = 0

\* BGMM.update(x, z) resamples the weights from z (and the means and precisions,
\* whose values no other method of IMM reads back into k, z or the priors)
BgmmUpdate(zz, kk, pw) == UpdateWeights(zz, kk, pw)

\* update(x, z) with self.k = kk: re-dimension the priors to kk rows, allocate
\* means and precisions, then BGMM.update.  prior_means is re-dimensioned before
\* prior_dof[0] is read, so it is already replaced when that read raises.
DoUpdate(kk, xset, zz) ==
    /\ prior_means' = RepeatFirst(prior_means, kk)
    /\ IF FirstRaises(prior_dof)
       THEN UNCHANGED <<prior_dof, prior_shrinkage, dets, inv_prior_scale,
                        means_rows, weights>>
       ELSE /\ prior_dof' = Ones(kk, prior_dof[1])
            /\ prior_shrinkage' = Ones(kk, prior_shrinkage[1])
            /\ dets' = Ones(kk, dets[1])
            /\ inv_prior_scale' = RepeatFirst(inv_prior_scale, kk)
            /\ means_rows' = kk
            /\ weights' = BgmmUpdate(zz, kk, prior_weights)
    /\ updX' = xset
    /\ updZ' = zz
    /\ updated' = TRUE
    /\ UNCHANGED <<prior_weights, prior_scale, priors_set, canon>>

\* set_priors(x)
DoSetPriors(xs) ==
    LET c == PriorsOf(xs)
    IN  /\ prior_means' = <<c.means>>
        /\ prior_weights' = <<c.weights>>
        /\ prior_scale' = <<c.scale>>
        /\ prior_dof' = <<c.dof>>
        /\ prior_shrinkage' = <<c.shrinkage>>
        /\ dets' = <<c.dets>>
        /\ inv_prior_scale' = <<c.inv_scale>>
        /\ priors_set' = TRUE
        /\ canon' = c

\* ------------------------------------------------- the object, constructed
\* __init__: k = 0, weights = [1], the priors None
Constructed ==
    /\ k = 0
    /\ weights = << <<1, 1>> >>
    /\ prior_means = <<>> /\ prior_weights = <<>> /\ prior_scale = <<>>
    /\ prior_dof = <<>> /\ prior_shrinkage = <<>> /\ dets = <<>>
    /\ inv_prior_scale = <<>>
    /\ means_rows = 0
    /\ priors_set = FALSE
    /\ canon = NoCanon

NoSample ==
    /\ n = 0 /\ z = <<>> /\ niter = 0 /\ it = 0 /\ folds = 0 /\ inited = FALSE
    /\ idx = <<>> /\ fi = 0 /\ test = {} /\ written = <<>>

NoHistory == updX = {} /\ updZ = <<>> /\ updated = FALSE /\ fresh = {}

NoCall == op = "none" /\ arg = <<>> /\ ret = <<>>

\* ===================================================== the sampler: sample
Init == Constructed /\ NoSample /\ NoHistory /\ NoCall /\ pc = "new"

\* The data the sampled object's priors are set from.  Only the prior values depend
\* on it; no branch of sample reads them.
SampleData == {<<0, 1>>}

\* igmm.set_priors(x) on the new object
SetPriors ==
    /\ pc = "new"
    /\ \E xs \in SampleData : DoSetPriors(xs)
    /\ pc' = "idle"
    /\ UNCHANGED <<k, weights, means_rows>>
    /\ UNCHANGED <<sampleVars, cvVars, histVars, callVars>>

\* sample(x, niter, init, k): up to the first indicator draw.
\* With init: k = 1, z = zeros, update(x, z).  Then likelihood and the draw.
SampleStart ==
    /\ pc = "idle"
    /\ \E nn \in 1..MaxN, init \in BOOLEAN, kf \in 0..(MaxN + 1), ni \in 1..MaxIter :
         LET k1 == IF init THEN 1 ELSE k
         IN  /\ kf <= nn + 1
             /\ n' = nn /\ niter' = ni /\ folds' = kf /\ inited' = init /\ it' = 0
             /\ k' = k1
             /\ IF init
                THEN DoUpdate(1, 1..nn, Ones(nn, 0))
                ELSE UNCHANGED <<priorVars, weights, means_rows, updX, updZ, updated>>
             /\ \E draw \in BaseDraws(1..nn, k1) :
                  /\ z' = SampleIndicator(draw, k1)
                  /\ fresh' = {p \in 1..nn : draw[p] = k1}
    /\ pc' = "iter"
    /\ UNCHANGED <<cvVars, callVars>>

\* simple_update(x, z, plike): likelihood, a draw into a local z, reduce, update.
\* sample's own z is not touched.
SimpleUpdate ==
    /\ pc = "iter" /\ folds = 0
    /\ \E draw \in BaseDraws(1..n, k) :
         LET zl == SampleIndicator(draw, k)
             zr == ReduceZ(zl)
             kk == ReduceK(zr)
         IN  /\ k' = kk
             /\ DoUpdate(kk, 1..n, zr)
             /\ fresh' = {p \in 1..n : draw[p] = k}
    /\ it' = it + 1
    /\ pc' = IF it + 1 = niter THEN "done" ELSE "iter"
    /\ UNCHANGED <<n, z, niter, folds, inited, cvVars, callVars>>

\* -------------------------------------------------- cross_validated_update
\* np.argsort(np.random.rand(n_samples)): any permutation of the points
Perms(nn) == {f \in [1..nn -> 1..nn] : \A a, b \in 1..nn : f[a] = f[b] => a = b}

\* j = np.ceil(n_samples/k): both operands are ints, so the quotient is already
\* the floor when ceil is applied
FoldSize(nn, kf) == nn \div kf

\* test[idx[i*j:min(n_samples,j*(i+1))]] = 1
FoldBlock(perm, nn, kf, i) ==
    LET j == FoldSize(nn, kf)
        hi == Min({nn, j * (i + 1)})
    IN  {perm[q] : q \in (i * j + 1)..hi}

TrainAll(tst, nn) == 1..nn

\* train = np.logical_not(test)
Train(tst, nn) == (1..nn) \ tst

\* z[mask]: a copy of the entries of z under the mask, in point order
SubVector(zz, S) ==
    LET pos == SortedSeq(S)
    IN  [i \in DOMAIN pos |-> zz[pos[i]]]

\* lines 179-182: idx, j, slike = zeros
CvStart ==
    /\ pc = "iter" /\ folds > 0
    /\ \E perm \in Perms(n) : idx' = perm
    /\ fi' = 0
    /\ test' = {}
    /\ written' = Ones(n, 0)
    /\ pc' = "cvfold"
    /\ UNCHANGED <<objVars, sampleVars, histVars, callVars>>

\* One fold, lines 185-192: the masks, self.reduce(z[train]) on a copy of the
\* training labels (z itself keeps its labels), then
\* self.update(x[train], z[train]) with a second copy taken from z.
\* reduce raises on an empty training vector, which ends the call.
CvRefit ==
    /\ pc = "cvfold"
    /\ LET tst == FoldBlock(idx, n, folds, fi)
           trn == Train(tst, n)
           zt  == SubVector(z, trn)
       IN  /\ test' = tst
           /\ IF ReduceRaises(zt)
              THEN /\ pc' = "raised"
                   /\ UNCHANGED <<objVars, histVars>>
              ELSE /\ k' = ReduceK(ReduceZ(zt))
                   /\ DoUpdate(k', trn, SubVector(z, trn))
                   /\ pc' = "cvdraw"
                   /\ UNCHANGED fresh
    /\ UNCHANGED <<sampleVars, idx, fi, written, callVars>>

\* One fold, lines 195-200: the likelihood of the left-out points, their slike
\* entries, and z[test] = self.sample_indicator(alike)
CvDraw ==
    /\ pc = "cvdraw"
    /\ LET rows == SortedSeq(test)
       IN  \E draw \in BaseDraws(DOMAIN rows, k) :
             LET zs == SampleIndicator(draw, k)
             IN  /\ z' = [p \in 1..n |->
                            IF p \in test
                            THEN zs[CHOOSE i \in DOMAIN rows : rows[i] = p]
                            ELSE z[p]]
                 /\ fresh' = {rows[i] : i \in {q \in DOMAIN rows : draw[q] = k}}
    /\ written' = [p \in 1..n |-> IF p \in test THEN written[p] + 1 ELSE written[p]]
    /\ fi' = fi + 1
    /\ pc' = IF fi + 1 = folds THEN "cvdone" ELSE "cvfold"
    /\ UNCHANGED <<objVars, n, niter, it, folds, inited, idx, test,
                   updX, updZ, updated, callVars>>

\* return slike, and sample's loop goes on
CvReturn ==
    /\ pc = "cvdone"
    /\ it' = it + 1
    /\ pc' = IF it + 1 = niter THEN "done" ELSE "iter"
    /\ UNCHANGED <<objVars, n, z, niter, folds, inited, cvVars, histVars, callVars>>

Next == SetPriors \/ SampleStart \/ SimpleUpdate \/ CvStart \/ CvRefit \/ CvDraw \/ CvReturn

Spec == Init /\ [][Next]_vars

\* ============================================ single calls of the methods
\* reduce, sample_indicator and update_weights called once on an object whose
\* priors are set and whose k is any value 0..MaxK.
Vectors == UNION {[1..m -> 0..MaxLabel] : m \in 0..MaxLen}

InitCalls ==
    /\ k \in 0..MaxK
    /\ weights = << <<1, 1>> >>
    /\ LET c == PriorsOf(<<0, 1>>)
       IN  /\ prior_means = <<c.means>> /\ prior_weights = <<c.weights>>
           /\ prior_scale = <<c.scale>> /\ prior_dof = <<c.dof>>
           /\ prior_shrinkage = <<c.shrinkage>> /\ dets = <<c.dets>>
           /\ inv_prior_scale = <<c.inv_scale>>
           /\ canon = c
    /\ priors_set = TRUE
    /\ means_rows = 0
    /\ NoSample /\ NoHistory /\ NoCall
    /\ pc = "call"

\* reduce(z)
CallReduce ==
    /\ pc = "call"
    /\ \E zz \in Vectors :
         /\ op' = "reduce"
         /\ arg' = zz
         /\ IF ReduceRaises(zz)
            THEN /\ ret' = zz
                 /\ pc' = "raised"
                 /\ UNCHANGED k
            ELSE /\ ret' = ReduceZ(zz)
                 /\ k' = ReduceK(ret')
                 /\ pc' = "ret"
    /\ UNCHANGED <<weights, means_rows, priorVars, sampleVars, cvVars, histVars>>

\* sample_indicator(like), like of any number of rows and k+1 columns
CallSampleIndicator ==
    /\ pc = "call"
    /\ \E m \in 0..MaxLen : \E draw \in BaseDraws(1..m, k) :
         /\ op' = "sample_indicator"
         /\ arg' = draw
         /\ ret' = SampleIndicator(draw, k)
    /\ pc' = "ret"
    /\ UNCHANGED <<objVars, sampleVars, cvVars, histVars>>

\* update_weights(z)
CallUpdateWeights ==
    /\ pc = "call"
    /\ \E zz \in Vectors :
         /\ op' = "update_weights"
         /\ arg' = zz
         /\ ret' = <<>>
         /\ weights' = UpdateWeights(zz, k, prior_weights)
    /\ pc' = "ret"
    /\ UNCHANGED <<k, means_rows, priorVars, sampleVars, cvVars, histVars>>

NextCalls == CallReduce \/ CallSampleIndicator \/ CallUpdateWeights

SpecCalls == InitCalls /\ [][NextCalls]_vars

\* ================================= set_priors, reduce and update in any order
InitPriors == Constructed /\ NoSample /\ NoHistory /\ NoCall /\ pc = "obj"

ObjSetPriors ==
    /\ pc = "obj"
    /\ \E xs \in DataSets : DoSetPriors(xs)
    /\ updated' = FALSE
    /\ UNCHANGED <<k, weights, means_rows, pc, updX, updZ, fresh>>
    /\ UNCHANGED <<sampleVars, cvVars, callVars>>

\* reduce(z): only self.k is kept of it here
ObjReduce ==
    /\ pc = "obj"
    /\ \E zz \in Vectors :
         IF ReduceRaises(zz)
         THEN pc' = "raised" /\ UNCHANGED <<k, updated>>
         ELSE k' = ReduceK(ReduceZ(zz)) /\ updated' = FALSE /\ pc' = "obj"
    /\ UNCHANGED <<weights, means_rows, priorVars, updX, updZ, fresh>>
    /\ UNCHANGED <<sampleVars, cvVars, callVars>>

\* update(x, z) with a label vector that fits the current k
ObjUpdate ==
    /\ pc = "obj"
    /\ priors_set
    /\ \E zz \in Vectors :
         /\ \A p \in DOMAIN zz : zz[p] < k
         /\ DoUpdate(k, DOMAIN zz, zz)
    /\ pc' = IF FirstRaises(prior_dof) THEN "raised" ELSE "obj"
    /\ UNCHANGED <<k, fresh, sampleVars, cvVars, callVars>>

NextPriors == ObjSetPriors \/ ObjReduce \/ ObjUpdate

SpecPriors == InitPriors /\ [][NextPriors]_vars

\* ================================================================= claims
Alpha == Rat(AlphaNum, AlphaDen)
Count(zz, v) == Cardinality({p \in DOMAIN zz : zz[p] = v})

\* C1: after reduce(z) on a non-empty vector of non-negative labels, each entry is
\* the 0-based rank of its original label among the sorted distinct original labels:
\* the labels are exactly 0..k-1, equal labels stay equal and distinct labels stay
\* distinct, the order of labels is kept, and k is the number of distinct labels.
C1_ReduceRanks ==
    (op = "reduce" /\ pc = "ret") =>
        LET D == Range(arg)
        IN  /\ DOMAIN ret = DOMAIN arg
            /\ \A p \in DOMAIN arg : ret[p] = Cardinality({v \in D : v < arg[p]})
            /\ Range(ret) = 0..(k - 1)
            /\ k = Cardinality(D)
            /\ \A p, q \in DOMAIN arg : (ret[p] = ret[q]) <=> (arg[p] = arg[q])
            /\ \A p, q \in DOMAIN arg : (arg[p] < arg[q]) => (ret[p] < ret[q])

C1_Witness ==
    op = "reduce" /\ pc = "ret" /\ arg = <<3, 1, 3>> /\ ret = <<1, 0, 1>> /\ k = 2

\* C2: sample_indicator keeps the label of every row that drew a column < k, and
\* gives the rows that drew the last column k the labels k, k+1, ... in point
\* order, so that no two of them share a label.
C2_FreshLabels ==
    (op = "sample_indicator" /\ pc = "ret") =>
        LET new == {p \in DOMAIN arg : arg[p] = k}
        IN  /\ DOMAIN ret = DOMAIN arg
            /\ \A p \in DOMAIN arg \ new : arg[p] < k /\ ret[p] = arg[p]
            /\ \A p \in new : ret[p] = k + Cardinality({q \in new : q < p})
            /\ \A p, q \in new : p # q => ret[p] # ret[q]
            /\ \A p, q \in new : p < q => ret[p] < ret[q]

C2_Witness ==
    /\ op = "sample_indicator" /\ pc = "ret" /\ k = 2
    /\ arg = <<2, 0, 2>> /\ ret = <<2, 0, 3>>

\* C3: when the held-out likelihood and indicators of a fold are about to be
\* computed, the last update was given exactly the points outside the fold's
\* held-out set, and none of the held-out points.
C3_TrainIsComplement ==
    pc = "cvdraw" =>
        /\ updated
        /\ updX = (1..n) \ test
        /\ updX \cap test = {}
        /\ Len(updZ) = Cardinality(updX)

C3_Witness ==
    pc = "cvdraw" /\ n = 3 /\ folds = 3 /\ fi = 1 /\ test = {2} /\ updX = {1, 3}

\* C4: when cross_validated_update returns for a fold count in 1..n, every point
\* was held out in exactly one fold: its slike entry and its indicator were
\* written exactly once.
C4_EveryPointOnce ==
    (pc = "cvdone" /\ folds \in 1..n) => \A p \in 1..n : written[p] = 1

\* C5: the label vector given to update is compacted: its labels are exactly
\* 0..k-1 for the current k.
C5_UpdateSeesCompactLabels ==
    (updated /\ pc \in {"iter", "cvdraw", "cvfold", "cvdone", "done"}) =>
        Range(updZ) = 0..(k - 1)

\* C6: in a sample call started with init=True, k is at least 1 after the
\* initialisation and after every step of every iteration, plain or
\* cross-validated, also when the call ends with an exception.
C6_KPositive ==
    (inited /\ pc \in {"iter", "cvfold", "cvdraw", "cvdone", "done", "raised"}) => k >= 1

C6_Witness ==
    inited /\ pc = "done" /\ it = MaxIter /\ folds > 0 /\ k = 2 /\ n = MaxN

\* C7: for labels all below k (k >= 0), update_weights leaves k+1 nonnegative
\* weights that sum to 1, entry i in proportion to (count of label i) + alpha and
\* the last entry in proportion to alpha.
C7_Weights ==
    (op = "update_weights" /\ pc = "ret" /\ \A p \in DOMAIN arg : arg[p] < k) =>
        LET total == RatAdd(<<Len(arg), 1>>, RatMul(<<k + 1, 1>>, Alpha))
        IN  /\ Len(weights) = k + 1
            /\ \A i \in DOMAIN weights : weights[i][1] >= 0 /\ weights[i][2] > 0
            /\ RatSum(weights) = <<1, 1>>
            /\ \A i \in 1..k :
                 weights[i] = RatDiv(RatAdd(<<Count(arg, i - 1), 1>>, Alpha), total)
            /\ weights[k + 1] = RatDiv(Alpha, total)

C7_Witness ==
    /\ op = "update_weights" /\ pc = "ret" /\ k = 2 /\ arg = <<0, 1, 1>>
    /\ weights = << <<1, 3>>, <<5, 9>>, <<1, 9>> >>

\* C8: after set_priors, once update has run, each re-dimensioned prior array has
\* exactly k rows and every row is the value set_priors computed.
C8_RowsCanonical ==
    (priors_set /\ updated) =>
        /\ prior_means = Ones(k, canon.means)
        /\ prior_dof = Ones(k, canon.dof)
        /\ prior_shrinkage = Ones(k, canon.shrinkage)
        /\ dets = Ones(k, canon.dets)
        /\ inv_prior_scale = Ones(k, canon.inv_scale)

\* the fold count leaves some fold without held-out points or without
\* training points
DegenerateFolds ==
    \E i \in 0..(folds - 1) :
        FoldBlock(idx, n, folds, i) = {} \/ FoldBlock(idx, n, folds, i) = 1..n

\* C9: cross_validated_update does not run its fold loop to the end for a fold
\* count that leaves a fold's held-out set or training set empty: it never
\* returns normally from such a call.
C9_DegenerateRejected == pc = "cvdone" => ~DegenerateFolds

\* C10: after a fold's draw, the label of a point that spawned a new cluster is
\* held by no other point of z, except possibly held-out points of the same
\* draw that chose an existing cluster.
C10_FreshNotMerged ==
    (pc \in {"cvfold", "cvdone"} /\ fi >= 1) =>
        \A p \in fresh : \A q \in (1..n) \ {p} :
            q \notin (test \ fresh) => z[q] # z[p]
====
